---- MODULE Spec2Model ----
(***************************************************************************)
(* Conserve: the archive path type (src/src/apath.rs), its order checker,  *)
(* the ordered walker of a live tree (src/src/live_tree.rs) and the copy   *)
(* of one tree into another (src/src/copy_tree.rs).                        *)
(*                                                                         *)
(* A Rust String is a sequence of byte values, so that the string          *)
(* comparisons of the source (str::cmp) are the ordinal comparisons they   *)
(* are in the program.  An Apath is a String, as in `struct Apath(String)`.*)
(***************************************************************************)
EXTENDS Integers, Sequences, FiniteSets, TLC

VARIABLES
    input,      \* harness of is_valid / From: the string handed in
    valid,      \* Some(Apath::is_valid(input)), None before the call
    built,      \* Some(Apath::from(input)), None before the call
    a,          \* harness of Ord::cmp: the left path
    b,          \* harness of Ord::cmp: the right path
    ord,        \* a.cmp(&b), "unset" before the call
    ord_back,        \* b.cmp(&a), "unset" before the call
    last_apath, \* CheckOrder.last_apath
    checked,    \* history: the paths CheckOrder::check accepted, in call order
    refused,    \* history: Some(the path whose check failed the assertion)
    root_stat,  \* what fs::symlink_metadata answers for the root path
    tree,       \* the filesystem below the root: path -> [kind, len, target]
    excludes,   \* Iter.excludes: the names n of its globs "/**/n"
    pc,         \* where the program is: "setup" (the fixture is being built),
                \* "new" (before Iter::new), "idle" (no call of next in
                \* progress), "loop" (inside next, at the head of its loop),
                \* "visiting" (inside the for loop of visit_next_directory),
                \* "failed" (Iter::new returned Err), "panicked"
    dir_deque,  \* Iter.dir_deque
    entry_deque,\* Iter.entry_deque
    parent_apath, \* visit_next_directory: its argument
    children,   \* visit_next_directory: the Vec children
    dir_iter,   \* the names read_dir has still to return (unchanging tree)
    listed,     \* history: how many directory entries read_dir has returned
    expanded,   \* history: the arguments of visit_next_directory, in call order
    dir_entry,  \* visit_next_directory: the dir_entry of its for loop, what
                \* the listing answered last; NoDirEntry outside the loop
    report,     \* Report: the counters, and the number of problems reported
    yielded,    \* history: the entries next() returned, in order
    returned_none, \* history: next() has returned None
    nones,      \* history: how many times next() has returned None
    seen_excluded, \* history: per file type, the listed children whose path
                \* matched the exclusion predicate
    copy_pc,    \* copy_tree: "none", "start", "copying" (in the for loop),
                \* "done" (it has returned), "panicked"
    options,    \* copy_tree: its CopyOptions
    source,     \* the source tree: whether its iter_entries() succeeds, and
                \* the entries its iterator returns, in order
    taken,      \* copy_tree: how many entries its for loop has taken
    to_be_copied, \* copy_tree: its local to_be_copied, None before the loop
    stats,      \* copy_tree: its local stats
    bytes_total,  \* ui: the total set by set_bytes_total, None when unset
    dest,       \* the destination tree: path -> [kind, size, target]
    dest_ops,   \* history: the operations called on the destination, in order
    result      \* what copy_tree returned, None while it runs

apathVars == <<input, valid, built>>
cmpVars == <<a, b, ord, ord_back>>
checkVars == <<last_apath, checked, refused>>
iterVars == <<root_stat, tree, excludes, pc, dir_deque, entry_deque,
              parent_apath,
              children, dir_iter, listed, expanded, dir_entry, report,
              yielded, returned_none, nones, seen_excluded>>
copyVars == <<copy_pc, options, source, taken, to_be_copied, stats,
              bytes_total, dest, dest_ops, result>>
vars == <<input, valid, built, a, b, ord, ord_back, last_apath, checked, refused,
          root_stat, tree, excludes, pc, dir_deque, entry_deque, parent_apath,
          children,
          dir_iter, listed, expanded, dir_entry, report, yielded,
          returned_none, nones,
          seen_excluded, copy_pc, options, source, taken,
          to_be_copied, stats, bytes_total, dest, dest_ops, result>>

-----------------------------------------------------------------------------
(* Bytes the source names.                                                 *)
NUL == 0
DOT == 46
SLASH == 47
LetterA == 97
LetterB == 98

(* Bounds of the model.                                                    *)
MaxLen == 4
CmpDepth == 3
CheckDepth == 2
MaxCalls == 3
MaxEntries == 5
MaxListed == 2
MaxSource == 3
MaxNones == 2
MaxLiveEntries == 3

-----------------------------------------------------------------------------
(* Option<T>: None, or Some(x) *)
None == <<>>
Some(x) == <<x>>
is_some(o) == Len(o) = 1
unwrap(o) == o[1]

(* Strings *)

Strings(chars, n) == UNION {[1..k -> chars] : k \in 0..n}

\* str::starts_with(char)
starts_with(s, ch) == Len(s) >= 1 /\ s[1] = ch

\* str::contains(char)
contains(s, ch) == \E i \in 1..Len(s) : s[i] = ch

\* str::split(char): the pieces between separators; always at least one piece,
\* and empty pieces are kept (also a trailing one).
RECURSIVE split(_, _)
split(s, sep) ==
    IF contains(s, sep)
    THEN LET i == CHOOSE k \in 1..Len(s) :
                      s[k] = sep /\ \A j \in 1..(k - 1) : s[j] # sep
         IN  <<SubSeq(s, 1, i - 1)>> \o split(SubSeq(s, i + 1, Len(s)), sep)
    ELSE <<s>>

\* str::cmp: ordinal comparison, byte by byte, a proper prefix being less.
RECURSIVE str_cmp(_, _)
str_cmp(x, y) ==
    IF Len(x) = 0 /\ Len(y) = 0 THEN "Equal"
    ELSE IF Len(x) = 0 THEN "Less"
    ELSE IF Len(y) = 0 THEN "Greater"
    ELSE IF x[1] < y[1] THEN "Less"
    ELSE IF x[1] > y[1] THEN "Greater"
    ELSE str_cmp(Tail(x), Tail(y))

-----------------------------------------------------------------------------
(* Apath *)

\* is_valid with the test for an empty part left out
is_valid_empty_parts(s) ==
    IF ~starts_with(s, SLASH) THEN FALSE
    ELSE IF Len(s) = 1 THEN TRUE
    ELSE LET parts == split(SubSeq(s, 2, Len(s)), SLASH)
         IN  \A i \in 1..Len(parts) :
                 ~(\/ parts[i] = <<DOT>>
                   \/ parts[i] = <<DOT, DOT>>
                   \/ contains(parts[i], NUL))

\* Apath::is_valid
is_valid(s) ==
    IF ~starts_with(s, SLASH) THEN FALSE
    ELSE IF Len(s) = 1 THEN TRUE
    ELSE LET parts == split(SubSeq(s, 2, Len(s)), SLASH)
         IN  \A i \in 1..Len(parts) :
                 ~(\/ Len(parts[i]) = 0
                   \/ parts[i] = <<DOT>>
                   \/ parts[i] = <<DOT, DOT>>
                   \/ contains(parts[i], NUL))

Panic == [panic |-> TRUE]

\* From without its assertion
apath_from_unchecked(s) == [panic |-> FALSE, apath |-> s]

\* impl From<&str> for Apath, impl From<String> for Apath: the assertion, then
\* the value wrapping the string.
apath_from(s) ==
    IF ~is_valid(s) THEN Panic ELSE [panic |-> FALSE, apath |-> s]

RECURSIVE cmp_loop(_, _, _, _, _)

\* cmp_loop with the arm (Some(_ac), None) returning Less like the arm above it
cmp_loop_both_less(as, bs, i, oa, ob) ==
    LET anext == i <= Len(as)
        bnext == i <= Len(bs)
    IN  IF ~anext /\ ~bnext THEN str_cmp(oa, ob)
        ELSE IF ~anext THEN "Less"
        ELSE IF ~bnext THEN "Less"
        ELSE LET o == str_cmp(oa, ob)
             IN  IF o = "Equal"
                 THEN cmp_loop(as, bs, i + 1, as[i], bs[i])
                 ELSE o

\* cmp_loop with the results of the two one-sided arms exchanged
cmp_loop_swapped(as, bs, i, oa, ob) ==
    LET anext == i <= Len(as)
        bnext == i <= Len(bs)
    IN  IF ~anext /\ ~bnext THEN str_cmp(oa, ob)
        ELSE IF ~anext THEN "Greater"
        ELSE IF ~bnext THEN "Less"
        ELSE LET o == str_cmp(oa, ob)
             IN  IF o = "Equal"
                 THEN cmp_loop(as, bs, i + 1, as[i], bs[i])
                 ELSE o

\* The loop of Ord::cmp: i is the place of the iterators ait and bit (the index
\* of the piece their next() returns), oa and ob the pieces held.
cmp_loop(as, bs, i, oa, ob) ==
    LET anext == i <= Len(as)
        bnext == i <= Len(bs)
    IN  IF ~anext /\ ~bnext THEN str_cmp(oa, ob)
        ELSE IF ~anext THEN "Less"
        ELSE IF ~bnext THEN "Greater"
        ELSE LET o == str_cmp(oa, ob)
             IN  IF o = "Equal"
                 THEN cmp_loop(as, bs, i + 1, as[i], bs[i])
                 ELSE o

\* the derived order of the wrapped String in place of the hand-written one
cmp_as_string(x, y) == str_cmp(x, y)

\* impl Ord for Apath
cmp(x, y) ==
    LET as == split(x, SLASH)
        bs == split(y, SLASH)
    IN  cmp_loop(as, bs, 2, as[1], bs[1])

\* impl PartialOrd: last_apath < a
apath_lt(x, y) == cmp(x, y) = "Less"

\* The path of a child: the parent's string, a '/' unless the parent is the
\* root, then the child's name.
child_apath_str(parent, name) ==
    IF parent # <<SLASH>> THEN parent \o <<SLASH>> \o name ELSE parent \o name

Root == <<SLASH>>


-----------------------------------------------------------------------------
(* CheckOrder *)

\* CheckOrder::new
check_order_new == None

\* check with the assertion last_apath <= a, which lets a repeated path pass
check_allow_equal(last, p) ==
    IF is_some(last) /\ cmp(unwrap(last), p) = "Greater"
    THEN [panic |-> TRUE, last_apath |-> last]
    ELSE [panic |-> FALSE, last_apath |-> Some(p)]

\* CheckOrder::check: the assertion, then the path recorded as last seen
check(last, p) ==
    IF is_some(last) /\ ~apath_lt(unwrap(last), p)
    THEN [panic |-> TRUE, last_apath |-> last]
    ELSE [panic |-> FALSE, last_apath |-> Some(p)]

-----------------------------------------------------------------------------
(* Report *)

CounterNames ==
    { "source.visited.directories", "source.selected",
      "skipped.excluded.files", "skipped.excluded.directories",
      "skipped.excluded.symlinks", "source.error.metadata" }

\* Report::new
report_new ==
    [counts |-> [c \in CounterNames |-> 0], problems |-> 0, errors_shown |-> 0]

\* Report::increment
increment(r, counter, n) ==
    [r EXCEPT !.counts[counter] = @ + n]

\* Report::problem
problem(r) == [r EXCEPT !.problems = @ + 1]

\* Report::show_error
show_error(r) == [r EXCEPT !.errors_shown = @ + 1]

\* Report::get_count
get_count(r, counter) == r.counts[counter]

-----------------------------------------------------------------------------
(* LiveEntry *)

FileTypes == {"File", "Dir", "Symlink", "Other"}

\* fs::Metadata: its file type and its len()
Metadata(ft, len) == [res |-> "Ok", ft |-> ft, len |-> len]

\* LiveEntry::from_fs_metadata
from_fs_metadata(apath, metadata, symlink_target) ==
    LET kind == IF metadata.ft = "File" THEN "File"
                ELSE IF metadata.ft = "Dir" THEN "Dir"
                ELSE IF metadata.ft = "Symlink" THEN "Symlink"
                ELSE "Unknown"
        size == IF metadata.ft = "File" THEN Some(metadata.len) ELSE None
    IN  [apath |-> apath, kind |-> kind, size |-> size,
         symlink_target |-> symlink_target]

-----------------------------------------------------------------------------
(* The exclusion predicate: a GlobSet of globs "/**/n", one for each name n *)
(* of the set; such a glob matches the paths whose last component is n.    *)

is_match(globs, path) ==
    LET parts == split(path, SLASH)
    IN  parts[Len(parts)] \in globs

-----------------------------------------------------------------------------
(* What the filesystem answers for one entry of a directory listing:       *)
(*   entry  "Ok" or "Err": the item of the ReadDir iterator                *)
(*   name   file_name().to_str(): Some(name), or None when not UTF-8       *)
(*   ft     file_type(): a file type, or "Err"                             *)
(*   md     metadata(): res "Ok" with the type and length, "NotFound" or   *)
(*          "OtherErr"                                                     *)
(*   link   read_link() and into_string(): res "Ok" with the target,       *)
(*          "ReadErr" or "DecodeErr"                                       *)

WalkNames == { <<LetterA>>, <<LetterB>> }

\* b"contents", written by TreeFixture::create_file
FileLen == 8

\* the target "to" of tests::symlinks
LinkTarget == <<116, 111>>

NoMd == [res |-> "NotFound", ft |-> "Other", len |-> 0]
NoLink == [res |-> "ReadErr", target |-> <<>>]
OkLink(target) == [res |-> "Ok", target |-> target]

DirEntry(entry, name, ft, md, link) ==
    [entry |-> entry, name |-> name, ft |-> ft, md |-> md, link |-> link]

\* no directory entry in hand
NoDirEntry == [entry |-> "None", name |-> None, ft |-> "Err", md |-> NoMd,
               link |-> NoLink]

-----------------------------------------------------------------------------
(* Iter *)

\* the exclusion test reached only for regular files
excluded_child_files_only(globs, path, ft) ==
    ft = "File" /\ is_match(globs, path)

\* if self.excludes.is_match(&child_apath_str)
excluded_child(globs, path, ft) == is_match(globs, path)

\* every excluded child counted as a file
count_excluded_as_file(r, ft) == increment(r, "skipped.excluded.files", 1)

\* The counting of an excluded child by its file type.
count_excluded(r, ft) ==
    IF ft = "File" THEN increment(r, "skipped.excluded.files", 1)
    ELSE IF ft = "Dir" THEN increment(r, "skipped.excluded.directories", 1)
    ELSE IF ft = "Symlink" THEN increment(r, "skipped.excluded.symlinks", 1)
    ELSE r

\* a child that disappeared between the listing and the stat skipped in silence
visit_child_notfound_silent(parent, de, globs, r) ==
    LET skip(rep) == [report |-> rep, child |-> None, panic |-> FALSE]
    IN  IF de.entry = "Err" THEN skip(problem(r))
        ELSE IF ~is_some(de.name) THEN skip(problem(r))
        ELSE
        LET child_name == unwrap(de.name)
            path == child_apath_str(parent, child_name)
        IN  IF de.ft = "Err" THEN skip(problem(r))
            ELSE IF excluded_child(globs, path, de.ft)
            THEN skip(count_excluded(r, de.ft))
            ELSE IF de.md.res = "NotFound" THEN skip(r)
            ELSE IF de.md.res # "Ok"
            THEN skip(increment(problem(r), "source.error.metadata", 1))
            ELSE IF de.ft = "Symlink" /\ de.link.res # "Ok"
            THEN skip(problem(r))
            ELSE
            LET target == IF de.ft = "Symlink"
                          THEN Some(de.link.target) ELSE None
                ap == apath_from(path)
            IN  IF ap.panic
                THEN [report |-> r, child |-> None, panic |-> TRUE]
                ELSE [report |-> r,
                      child |-> Some([name |-> child_name,
                                      entry |-> from_fs_metadata(
                                                    ap.apath, de.md, target)]),
                      panic |-> FALSE]

\* The body of the for loop of visit_next_directory for one directory entry:
\* the report after it, the child pushed onto children (if any), and whether
\* composing the child's Apath panicked.
visit_child(parent, de, globs, r) ==
    LET skip(rep) == [report |-> rep, child |-> None, panic |-> FALSE]
    IN  IF de.entry = "Err" THEN skip(problem(r))
        ELSE IF ~is_some(de.name) THEN skip(problem(r))
        ELSE
        LET child_name == unwrap(de.name)
            path == child_apath_str(parent, child_name)
        IN  IF de.ft = "Err" THEN skip(problem(r))
            ELSE IF excluded_child(globs, path, de.ft)
            THEN skip(count_excluded(r, de.ft))
            ELSE IF de.md.res = "NotFound" THEN skip(problem(r))
            ELSE IF de.md.res # "Ok"
            THEN skip(increment(problem(r), "source.error.metadata", 1))
            ELSE IF de.ft = "Symlink" /\ de.link.res # "Ok"
            THEN skip(problem(r))
            ELSE
            LET target == IF de.ft = "Symlink"
                          THEN Some(de.link.target) ELSE None
                ap == apath_from(path)
            IN  IF ap.panic
                THEN [report |-> r, child |-> None, panic |-> TRUE]
                ELSE [report |-> r,
                      child |-> Some([name |-> child_name,
                                      entry |-> from_fs_metadata(
                                                    ap.apath, de.md, target)]),
                      panic |-> FALSE]

\* children.sort_unstable_by(|a, b| a.0.cmp(&b.0)): every arrangement of the
\* children in which the names do not descend (the sort is not stable, so
\* children of one name may come out in either order).
sort_unstable_by_name(cs) ==
    { [i \in 1..Len(cs) |-> cs[q[i]]] : q \in
        { q \in Permutations(1..Len(cs)) :
            \A i \in 1..Len(cs), j \in 1..Len(cs) :
                i < j => str_cmp(cs[q[i]].name, cs[q[j]].name) # "Greater" } }

RECURSIVE rev(_)
rev(s) == IF s = <<>> THEN <<>> ELSE Append(rev(Tail(s)), Head(s))

RECURSIVE push_front_all(_, _)
push_front_all(dq, paths) ==
    IF paths = <<>> THEN dq
    ELSE push_front_all(<<Head(paths)>> \o dq, Tail(paths))

\* a symlink taken for a directory to descend into
IsDirChild_or_symlink(x) == x.entry.kind \in {"Dir", "Symlink"}

\* |x| x.1.kind == Kind::Dir
IsDirChild(x) == x.entry.kind = "Dir"
ApathOfChild(cs) == [i \in 1..Len(cs) |-> cs[i].entry.apath]
EntryOfChild(cs) == [i \in 1..Len(cs) |-> cs[i].entry]

\* the new directories pushed onto the back of the queue
push_new_dirs_back(dq, sorted) ==
    dq \o ApathOfChild(SelectSeq(sorted, IsDirChild))

\* pushing the new directories onto the front in sorted, not reverse, order
push_new_dirs_forward(dq, sorted) ==
    push_front_all(dq, ApathOfChild(SelectSeq(sorted, IsDirChild)))

\* for idir in children.iter().filter(|x| x.1.kind == Kind::Dir).rev()
\*     { self.dir_deque.push_front(idir.1.apath().clone()) }
push_new_dirs(dq, sorted) ==
    push_front_all(dq, rev(ApathOfChild(SelectSeq(sorted, IsDirChild))))

\* the sorted children queued last name first
extend_entries_reversed(eq, sorted) == eq \o rev(EntryOfChild(sorted))

\* self.entry_deque.extend(children.into_iter().map(|x| x.1))
extend_entries(eq, sorted) == eq \o EntryOfChild(sorted)

\* Iter::next, first arm: an entry is queued; it is popped, counted, checked
\* and returned.
NextYield ==
    /\ pc \in {"idle", "loop"}
    /\ entry_deque # <<>>
    /\ LET entry == Head(entry_deque)
           r == check(last_apath, entry.apath)
       IN  /\ entry_deque' = Tail(entry_deque)
           /\ report' = increment(report, "source.selected", 1)
           /\ IF r.panic
              THEN /\ pc' = "panicked"
                   /\ UNCHANGED <<last_apath, yielded>>
              ELSE /\ pc' = "idle"
                   /\ last_apath' = r.last_apath
                   /\ yielded' = Append(yielded, entry)
    /\ UNCHANGED <<root_stat, tree, excludes, dir_deque, parent_apath,
                   children, dir_iter,
                   listed, expanded, dir_entry, returned_none, nones,
                   seen_excluded, checked, refused>>

\* a failed listing giving up the directories still pending
NextVisit_failure_drops_pending(read_dir_ok, names) ==
    /\ pc \in {"idle", "loop"}
    /\ entry_deque = <<>>
    /\ dir_deque # <<>>
    /\ dir_deque' = IF read_dir_ok THEN Tail(dir_deque) ELSE <<>>
    /\ parent_apath' = Head(dir_deque)
    /\ expanded' = Append(expanded, Head(dir_deque))
    /\ children' = <<>>
    /\ IF read_dir_ok
       THEN /\ report' = increment(report, "source.visited.directories", 1)
            /\ dir_iter' = names
            /\ pc' = "visiting"
       ELSE /\ report' = problem(
                   increment(report, "source.visited.directories", 1))
            /\ dir_iter' = {}
            /\ pc' = "loop"
    /\ UNCHANGED <<root_stat, tree, excludes, entry_deque, listed, dir_entry,
                   yielded, returned_none, nones, seen_excluded, checkVars>>

\* the directory counted only once its listing has opened
NextVisit_count_listed_only(read_dir_ok, names) ==
    /\ pc \in {"idle", "loop"}
    /\ entry_deque = <<>>
    /\ dir_deque # <<>>
    /\ dir_deque' = Tail(dir_deque)
    /\ parent_apath' = Head(dir_deque)
    /\ expanded' = Append(expanded, Head(dir_deque))
    /\ children' = <<>>
    /\ IF read_dir_ok
       THEN /\ report' = increment(report, "source.visited.directories", 1)
            /\ dir_iter' = names
            /\ pc' = "visiting"
       ELSE /\ report' = problem(report)
            /\ dir_iter' = {}
            /\ pc' = "loop"
    /\ UNCHANGED <<root_stat, tree, excludes, entry_deque, listed, dir_entry,
                   yielded, returned_none, nones, seen_excluded, checkVars>>

\* Iter::next, second arm, and visit_next_directory up to the for loop: the
\* front directory is popped and counted, and read_dir answers Ok (with names,
\* the names this listing will return when the tree does not change) or Err.
NextVisit(read_dir_ok, names) ==
    /\ pc \in {"idle", "loop"}
    /\ entry_deque = <<>>
    /\ dir_deque # <<>>
    /\ dir_deque' = Tail(dir_deque)
    /\ parent_apath' = Head(dir_deque)
    /\ expanded' = Append(expanded, Head(dir_deque))
    /\ children' = <<>>
    /\ IF read_dir_ok
       THEN /\ report' = increment(report, "source.visited.directories", 1)
            /\ dir_iter' = names
            /\ pc' = "visiting"
       ELSE /\ report' = problem(
                   increment(report, "source.visited.directories", 1))
            /\ dir_iter' = {}
            /\ pc' = "loop"
    /\ UNCHANGED <<root_stat, tree, excludes, entry_deque, listed, dir_entry,
                   yielded, returned_none, nones, seen_excluded, checkVars>>

\* One round of the for loop of visit_next_directory, on the directory entry de.
VisitChild(de) ==
    /\ pc = "visiting"
    /\ LET out == visit_child(parent_apath, de, excludes, report)
       IN  /\ report' = out.report
           /\ IF out.panic
              THEN pc' = "panicked" /\ UNCHANGED children
              ELSE /\ pc' = "visiting"
                   /\ children' = IF is_some(out.child)
                                  THEN Append(children, unwrap(out.child))
                                  ELSE children
    /\ listed' = listed + 1
    /\ dir_entry' = de
    /\ seen_excluded' =
           IF /\ de.entry = "Ok"
              /\ is_some(de.name)
              /\ de.ft # "Err"
              /\ is_match(excludes, child_apath_str(parent_apath, unwrap(de.name)))
           THEN [seen_excluded EXCEPT ![de.ft] = @ + 1]
           ELSE seen_excluded
    /\ UNCHANGED <<root_stat, tree, excludes, dir_deque, entry_deque,
                   parent_apath, expanded, yielded, returned_none, nones,
                   checkVars>>

\* The end of visit_next_directory, after the listing has ended: the sort, the
\* new directories onto the front of dir_deque, all children onto the back of
\* entry_deque.
VisitEnd ==
    /\ pc = "visiting"
    /\ \E sorted \in sort_unstable_by_name(children) :
           /\ dir_deque' = push_new_dirs(dir_deque, sorted)
           /\ entry_deque' = extend_entries(entry_deque, sorted)
    /\ children' = <<>>
    /\ dir_entry' = NoDirEntry
    /\ pc' = "loop"
    /\ UNCHANGED <<root_stat, tree, excludes, parent_apath, dir_iter, listed,
                   expanded, report, yielded, returned_none, nones,
                   seen_excluded, checkVars>>

\* the walk started over from the root when it runs out
NextExhausted_restarts ==
    /\ pc \in {"idle", "loop"}
    /\ entry_deque = <<>>
    /\ dir_deque = <<>>
    /\ nones < MaxNones
    /\ pc' = "idle"
    /\ returned_none' = TRUE
    /\ nones' = nones + 1
    /\ dir_deque' = <<Root>>
    /\ UNCHANGED <<root_stat, tree, excludes, entry_deque,
                   parent_apath, children, dir_iter, listed, expanded,
                   dir_entry, report, yielded, seen_excluded, checkVars>>

\* the loop of next going round, and not returning, when nothing is left
NextExhausted_spins ==
    /\ pc \in {"idle", "loop"}
    /\ entry_deque = <<>>
    /\ dir_deque = <<>>
    /\ pc' = "loop"
    /\ UNCHANGED <<root_stat, tree, excludes, dir_deque, entry_deque,
                   parent_apath, children, dir_iter, listed, expanded,
                   dir_entry, report, yielded, returned_none, nones,
                   seen_excluded, checkVars>>

\* Iter::next, last arm: nothing queued and no directory left.
NextExhausted ==
    /\ pc \in {"idle", "loop"}
    /\ entry_deque = <<>>
    /\ dir_deque = <<>>
    /\ nones < MaxNones
    /\ pc' = "idle"
    /\ returned_none' = TRUE
    /\ nones' = nones + 1
    /\ UNCHANGED <<root_stat, tree, excludes, dir_deque, entry_deque,
                   parent_apath, children, dir_iter, listed, expanded,
                   dir_entry, report, yielded, seen_excluded, checkVars>>

\* Iter::new with the root pending as a directory but not queued as an entry
IterNew_root_not_queued(root_metadata, globs) ==
    /\ entry_deque' = <<>>
    /\ dir_deque' = <<apath_from(Root).apath>>
    /\ last_apath' = check_order_new
    /\ excludes' = globs
    /\ pc' = "idle"

\* Iter::new with the pending-directories queue left empty
IterNew_no_pending_dir(root_metadata, globs) ==
    /\ entry_deque' = <<from_fs_metadata(apath_from(Root).apath,
                                         root_metadata, None)>>
    /\ dir_deque' = <<>>
    /\ last_apath' = check_order_new
    /\ excludes' = globs
    /\ pc' = "idle"

\* Iter::new after symlink_metadata has answered root_metadata: the root entry
\* queued, the root directory pending, a fresh order checker.
IterNew(root_metadata, globs) ==
    /\ entry_deque' = <<from_fs_metadata(apath_from(Root).apath,
                                         root_metadata, None)>>
    /\ dir_deque' = <<apath_from(Root).apath>>
    /\ last_apath' = check_order_new
    /\ excludes' = globs
    /\ pc' = "idle"

\* Iter::new when symlink_metadata has failed: the error is shown on the
\* report and returned; no Iter exists.
IterNewFailed ==
    /\ report' = show_error(report)
    /\ pc' = "failed"
    /\ UNCHANGED <<root_stat, tree, excludes, dir_deque, entry_deque,
                   parent_apath, children, dir_iter, listed, expanded,
                   dir_entry, yielded, returned_none, nones, seen_excluded,
                   checkVars>>

-----------------------------------------------------------------------------
(* copy_tree (src/src/copy_tree.rs).  A source is any ReadTree: an ordered *)
(* sequence of entries behind iter_entries(), which may fail.  A           *)
(* destination is any WriteTree; each of its operations may fail.          *)

Kinds == {"Dir", "File", "Symlink", "Unknown"}

\* let target = "DataScienceatHome"
Target ==
    <<68, 97, 116, 97, 83, 99, 105, 101, 110, 99, 101, 97, 116, 72, 111, 109,
      101>>

\* CopyStats::default(): the counters copy_tree names, and bytes for the
\* content statistics a file copy and finish report
copy_stats_default ==
    [directories |-> 0, files |-> 0, symlinks |-> 0, unknown_kind |-> 0,
     errors |-> 0, bytes |-> 0]

\* stats += s
stats_add(s1, s2) ==
    [directories |-> s1.directories + s2.directories,
     files |-> s1.files + s2.files,
     symlinks |-> s1.symlinks + s2.symlinks,
     unknown_kind |-> s1.unknown_kind + s2.unknown_kind,
     errors |-> s1.errors + s2.errors,
     bytes |-> s1.bytes + s2.bytes]

\* Result<CopyStats>
Ok(s) == [ok |-> TRUE, stats |-> s]
Err == [ok |-> FALSE, stats |-> copy_stats_default]

\* entry.size().unwrap_or(0)
size_or_0(entry) == IF is_some(entry.size) THEN unwrap(entry.size) ELSE 0

RECURSIVE file_bytes(_)
file_bytes(entries) ==
    IF entries = <<>> THEN 0
    ELSE size_or_0(Head(entries)) + file_bytes(Tail(entries))

\* ReadTree::size: one walk of the source that totals the bytes of its
\* entries; it fails when the walk cannot be opened
size(src) == [ok |-> src.opens, file_bytes |-> file_bytes(src.entries)]

\* WriteTree: the destination keeps, for each path, what was materialized
\* there.  ok tells whether the operation succeeds.
materialize(d, kind, entry) ==
    [q \in DOMAIN d \cup {entry.apath} |->
        IF q = entry.apath
        THEN [kind |-> kind,
              size |-> IF kind = "File" THEN Some(size_or_0(entry)) ELSE None,
              symlink_target |->
                  IF kind = "Symlink" THEN entry.symlink_target ELSE None]
        ELSE d[q]]

\* WriteTree::copy_dir
copy_dir(d, entry, ok) ==
    [res |-> IF ok THEN Ok(copy_stats_default) ELSE Err,
     dest |-> IF ok THEN materialize(d, "Dir", entry) ELSE d]

\* WriteTree::copy_file: on success it reports the bytes it stored
copy_file(d, entry, ok) ==
    [res |-> IF ok
             THEN Ok([copy_stats_default EXCEPT !.bytes = size_or_0(entry)])
             ELSE Err,
     dest |-> IF ok THEN materialize(d, "File", entry) ELSE d]

\* WriteTree::copy_symlink
copy_symlink(d, entry, ok) ==
    [res |-> IF ok THEN Ok(copy_stats_default) ELSE Err,
     dest |-> IF ok THEN materialize(d, "Symlink", entry) ELSE d]

\* The destination read back as a tree: its entries in ascending order of
\* their paths.
RECURSIVE dest_iter_entries(_)
dest_iter_entries(d) ==
    IF DOMAIN d = {} THEN <<>>
    ELSE LET first == CHOOSE p \in DOMAIN d :
                          \A q \in DOMAIN d \ {p} : apath_lt(p, q)
             rest == [q \in DOMAIN d \ {first} |-> d[q]]
         IN  <<[apath |-> first, kind |-> d[first].kind,
                size |-> d[first].size,
                symlink_target |-> d[first].symlink_target]>>
             \o dest_iter_entries(rest)

\* WriteTree::finish: what it returns
FinishAnswers ==
    { Ok(copy_stats_default),
      Ok([copy_stats_default EXCEPT !.errors = 1, !.bytes = 1]),
      Err }

\* one call on the destination, as the history dest_ops records it: the
\* operation, the path of its entry (none for finish), what it returned
DestOp(op, apath, res) == [op |-> op, apath |-> apath, res |-> res]

\* subtree[2], an index one too far
subtree_1_off_by_one(apath) ==
    LET subtree == split(apath, SLASH)
    IN  IF Len(subtree) < 3
        THEN [panic |-> TRUE, part |-> <<>>]
        ELSE [panic |-> FALSE, part |-> subtree[3]]

\* let subtree: Vec<&str> = entry.apath().split('/').collect(); subtree[1]:
\* the second piece (the module's sequences count from 1), or the panic of an
\* index out of bounds
subtree_1(apath) ==
    LET subtree == split(apath, SLASH)
    IN  IF Len(subtree) < 2
        THEN [panic |-> TRUE, part |-> <<>>]
        ELSE [panic |-> FALSE, part |-> subtree[2]]

\* The dispatch with one slip, named by slip:
\*   "symlink_as_file"    a symlink handed to copy_file
\*   "error_uncounted"    a failed operation not counted as an error
\*   "unknown_as_error"   an entry of unknown kind counted as an error too
\*   "dir_uncopied"       a directory counted but not handed to copy_dir
\*   "count_copied"       an entry counted by kind only when its copy succeeds
dispatch_slip(entry, ok, st, d, slip) ==
    LET after(st1, r, op) ==
            [stats |-> IF r.res.ok \/ slip = "error_uncounted" THEN st1
                       ELSE IF slip = "count_copied"
                       THEN [st EXCEPT !.errors = @ + 1]
                       ELSE [st1 EXCEPT !.errors = @ + 1],
             dest |-> r.dest,
             ops |-> <<DestOp(op, entry.apath, r.res)>>]
    IN  IF entry.kind = "Dir"
        THEN IF slip = "dir_uncopied"
             THEN [stats |-> [st EXCEPT !.directories = @ + 1],
                   dest |-> d, ops |-> <<>>]
             ELSE after([st EXCEPT !.directories = @ + 1],
                        copy_dir(d, entry, ok), "copy_dir")
        ELSE IF entry.kind = "File"
                \/ (entry.kind = "Symlink" /\ slip = "symlink_as_file")
        THEN LET r == copy_file(d, entry, ok)
                 st1 == [st EXCEPT !.files = @ + 1]
             IN  after(IF r.res.ok THEN stats_add(st1, r.res.stats) ELSE st1,
                       r, "copy_file")
        ELSE IF entry.kind = "Symlink"
        THEN after([st EXCEPT !.symlinks = @ + 1],
                   copy_symlink(d, entry, ok), "copy_symlink")
        ELSE [stats |-> [st EXCEPT !.unknown_kind = @ + 1,
                                   !.errors = IF slip = "unknown_as_error"
                                              THEN @ + 1 ELSE @],
              dest |-> d,
              ops |-> <<>>]

dispatch_symlink_as_file(entry, ok, st, d) ==
    dispatch_slip(entry, ok, st, d, "symlink_as_file")

dispatch_error_uncounted(entry, ok, st, d) ==
    dispatch_slip(entry, ok, st, d, "error_uncounted")

dispatch_unknown_as_error(entry, ok, st, d) ==
    dispatch_slip(entry, ok, st, d, "unknown_as_error")

dispatch_dir_uncopied(entry, ok, st, d) ==
    dispatch_slip(entry, ok, st, d, "dir_uncopied")

dispatch_count_copied(entry, ok, st, d) ==
    dispatch_slip(entry, ok, st, d, "count_copied")

\* The match on entry.kind() and the handling of its result: the stats and
\* the destination after it, and the destination operation it called, if any.
dispatch(entry, ok, st, d) ==
    LET after(st1, r, op) ==
            [stats |-> IF r.res.ok THEN st1
                       ELSE [st1 EXCEPT !.errors = @ + 1],
             dest |-> r.dest,
             ops |-> <<DestOp(op, entry.apath, r.res)>>]
    IN  IF entry.kind = "Dir"
        THEN after([st EXCEPT !.directories = @ + 1],
                   copy_dir(d, entry, ok), "copy_dir")
        ELSE IF entry.kind = "File"
        THEN LET r == copy_file(d, entry, ok)
                 st1 == [st EXCEPT !.files = @ + 1]
             IN  after(IF r.res.ok THEN stats_add(st1, r.res.stats) ELSE st1,
                       r, "copy_file")
        ELSE IF entry.kind = "Symlink"
        THEN after([st EXCEPT !.symlinks = @ + 1],
                   copy_symlink(d, entry, ok), "copy_symlink")
        ELSE [stats |-> [st EXCEPT !.unknown_kind = @ + 1],
              dest |-> d,
              ops |-> <<>>]

\* the sizing pass and the copy sharing one iteration of the source, which
\* the sizing pass uses up
CopyStart_measure_consumes ==
    /\ copy_pc = "start"
    /\ IF options.measure_first /\ ~size(source).ok
       THEN /\ result' = Some(Err)
            /\ copy_pc' = "done"
            /\ UNCHANGED <<bytes_total, taken>>
       ELSE /\ bytes_total' = IF options.measure_first
                              THEN Some(size(source).file_bytes)
                              ELSE bytes_total
            /\ taken' = IF options.measure_first
                        THEN Len(source.entries) ELSE taken
            /\ IF source.opens
               THEN copy_pc' = "copying" /\ UNCHANGED result
               ELSE copy_pc' = "done" /\ result' = Some(Err)
    /\ UNCHANGED <<options, source, to_be_copied, stats, dest, dest_ops>>

\* copy_tree up to its for loop: the sizing pass when asked for, then the
\* source's iteration opened; either may return the source's error.
CopyStart ==
    /\ copy_pc = "start"
    /\ IF options.measure_first /\ ~size(source).ok
       THEN /\ result' = Some(Err)
            /\ copy_pc' = "done"
            /\ UNCHANGED bytes_total
       ELSE /\ bytes_total' = IF options.measure_first
                              THEN Some(size(source).file_bytes)
                              ELSE bytes_total
            /\ IF source.opens
               THEN copy_pc' = "copying" /\ UNCHANGED result
               ELSE copy_pc' = "done" /\ result' = Some(Err)
    /\ UNCHANGED <<options, source, taken, to_be_copied, stats, dest, dest_ops>>

\* One round of the for loop of copy_tree: the next entry of the source, the
\* subtree matching, the dispatch by kind.  ok: whether the destination's
\* operation succeeds.
CopyEntry(ok) ==
    /\ copy_pc = "copying"
    /\ taken < Len(source.entries)
    /\ taken' = taken + 1
    /\ LET entry == source.entries[taken + 1]
           sub == subtree_1(entry.apath)
           out == dispatch(entry, ok, stats, dest)
       IN  IF sub.panic
           THEN /\ copy_pc' = "panicked"
                /\ UNCHANGED <<to_be_copied, stats, dest, dest_ops>>
           ELSE /\ to_be_copied' = Some(sub.part = Target)
                /\ stats' = out.stats
                /\ dest' = out.dest
                /\ dest_ops' = dest_ops \o out.ops
                /\ UNCHANGED copy_pc
    /\ UNCHANGED <<options, source, bytes_total, result>>

\* finish called, its statistics dropped
CopyFinish_stats_dropped(answer) ==
    /\ copy_pc = "copying"
    /\ taken = Len(source.entries)
    /\ dest_ops' = Append(dest_ops, DestOp("finish", <<>>, answer))
    /\ IF answer.ok
       THEN result' = Some(Ok(stats))
       ELSE result' = Some(Err)
    /\ copy_pc' = "done"
    /\ UNCHANGED <<options, source, taken, to_be_copied, stats, bytes_total,
                   dest>>

\* The for loop has ended: dest.finish()?, its statistics added, Ok(stats).
CopyFinish(answer) ==
    /\ copy_pc = "copying"
    /\ taken = Len(source.entries)
    /\ dest_ops' = Append(dest_ops, DestOp("finish", <<>>, answer))
    /\ IF answer.ok
       THEN /\ stats' = stats_add(stats, answer.stats)
            /\ result' = Some(Ok(stats'))
       ELSE /\ result' = Some(Err)
            /\ UNCHANGED stats
    /\ copy_pc' = "done"
    /\ UNCHANGED <<options, source, taken, to_be_copied, bytes_total, dest>>

-----------------------------------------------------------------------------
(* Inputs of the pure functions *)

Chars == {NUL, DOT, SLASH, LetterA}

\* tests::invalid, the strings of invalid_cases
InvalidCases ==
    { <<>>,
      <<47, 47>>,
      <<47, 47, 97>>,
      <<47, 97, 47, 47, 98>>,
      <<47, 97, 47>>,
      <<47, 97, 47, 47>>,
      <<46, 47, 97, 47, 98>>,
      <<47, 46, 47, 97, 47, 98>>,
      <<47, 97, 47, 98, 47, 46>>,
      <<47, 97, 47, 46, 47, 98>>,
      <<47, 97, 47, 98, 47, 46, 46, 47, 99>>,
      <<46, 46, 47, 97>>,
      <<47, 104, 101, 108, 108, 111, 0>> }

Inputs == Strings(Chars, MaxLen) \cup InvalidCases

CmpNames == { <<LetterA>>, <<LetterA, DOT>>, <<LetterB>> }

RECURSIVE PathsAt(_, _)
PathsAt(names, d) ==
    IF d = 0 THEN {Root}
    ELSE {child_apath_str(p, n) : p \in PathsAt(names, d - 1), n \in names}

PathsUpTo(names, d) == UNION {PathsAt(names, k) : k \in 0..d}

CmpPaths == PathsUpTo(CmpNames, CmpDepth)

-----------------------------------------------------------------------------
(* Harness of is_valid and From *)

IdleApath == input = <<>> /\ valid = None /\ built = None
IdleCmp == a = Root /\ b = Root /\ ord = "unset" /\ ord_back = "unset"
IdleCheck == last_apath = None /\ checked = <<>> /\ refused = None
IdleIter ==
    /\ root_stat = NoMd
    /\ tree = <<>>
    /\ excludes = {}
    /\ pc = "none"
    /\ dir_deque = <<>>
    /\ entry_deque = <<>>
    /\ parent_apath = Root
    /\ children = <<>>
    /\ dir_iter = {}
    /\ listed = 0
    /\ expanded = <<>>
    /\ dir_entry = NoDirEntry
    /\ report = report_new
    /\ yielded = <<>>
    /\ returned_none = FALSE
    /\ nones = 0
    /\ seen_excluded = [ft \in FileTypes |-> 0]

IdleCopy ==
    /\ copy_pc = "none"
    /\ options = [print_filenames |-> FALSE, measure_first |-> FALSE]
    /\ source = [opens |-> TRUE, entries |-> <<>>]
    /\ taken = 0
    /\ to_be_copied = None
    /\ stats = copy_stats_default
    /\ bytes_total = None
    /\ dest = <<>>
    /\ dest_ops = <<>>
    /\ result = None

InitValid ==
    /\ input \in Inputs
    /\ valid = None
    /\ built = None
    /\ IdleCmp
    /\ IdleCheck
    /\ IdleCopy
    /\ IdleIter

CallIsValid ==
    /\ valid = None
    /\ valid' = Some(is_valid(input))
    /\ UNCHANGED <<input, built, cmpVars, copyVars, checkVars, iterVars>>

CallFrom ==
    /\ built = None
    /\ built' = Some(apath_from(input))
    /\ UNCHANGED <<input, valid, cmpVars, copyVars, checkVars, iterVars>>

NextValid == CallIsValid \/ CallFrom

SpecValid == InitValid /\ [][NextValid]_vars

-----------------------------------------------------------------------------
(* Harness of Ord::cmp *)

InitCmp ==
    /\ a \in CmpPaths
    /\ b \in CmpPaths
    /\ ord = "unset"
    /\ ord_back = "unset"
    /\ IdleApath
    /\ IdleCheck
    /\ IdleCopy
    /\ IdleIter

CallCmp ==
    /\ ord = "unset"
    /\ apath_from(a).panic = FALSE
    /\ apath_from(b).panic = FALSE
    /\ ord' = cmp(a, b)
    /\ ord_back' = cmp(b, a)
    /\ UNCHANGED <<a, b, apathVars, checkVars, iterVars, copyVars>>

NextCmp == CallCmp

SpecCmp == InitCmp /\ [][NextCmp]_vars

-----------------------------------------------------------------------------
(* Harness of CheckOrder: one checker, called on any valid paths *)

CheckNames == WalkNames
CheckPaths == PathsUpTo(CheckNames, CheckDepth)

InitCheck ==
    /\ last_apath = check_order_new
    /\ checked = <<>>
    /\ refused = None
    /\ IdleApath
    /\ IdleCmp
    /\ IdleIter
    /\ IdleCopy

\* check(&p); a failed assertion ends the program
CallCheck(p) ==
    /\ refused = None
    /\ Len(checked) < MaxCalls
    /\ LET r == check(last_apath, apath_from(p).apath)
       IN  IF r.panic
           THEN /\ refused' = Some(p)
                /\ UNCHANGED <<last_apath, checked>>
           ELSE /\ last_apath' = r.last_apath
                /\ checked' = Append(checked, p)
                /\ UNCHANGED refused
    /\ UNCHANGED <<apathVars, cmpVars, copyVars, iterVars>>

NextCheck == \E p \in CheckPaths : CallCheck(p)

SpecCheck == InitCheck /\ [][NextCheck]_vars

-----------------------------------------------------------------------------
(* The walk of a tree that does not change and whose every listing, stat   *)
(* and symlink read succeeds.  The tree is built with the TreeFixture, then *)
(* opened as a LiveTree with some exclusions and iterated.                 *)

Node(kind, len, target) == [kind |-> kind, len |-> len, target |-> target]

\* the directories of the tree, the root among them
Dirs(tr) == {Root} \cup {p \in DOMAIN tr : tr[p].kind = "Dir"}

\* the names fs::read_dir lists in directory dir
ChildNames(tr, dir) ==
    {n \in WalkNames : child_apath_str(dir, n) \in DOMAIN tr}

\* what the filesystem answers for the child n of dir
StaticDirEntry(tr, dir, n) ==
    LET node == tr[child_apath_str(dir, n)]
    IN  DirEntry("Ok", Some(n), node.kind, Metadata(node.kind, node.len),
                 IF node.kind = "Symlink" THEN OkLink(node.target) ELSE NoLink)

Init ==
    /\ root_stat = Metadata("Dir", 0)
    /\ tree = <<>>
    /\ excludes = {}
    /\ pc = "setup"
    /\ dir_deque = <<>>
    /\ entry_deque = <<>>
    /\ parent_apath = Root
    /\ children = <<>>
    /\ dir_iter = {}
    /\ listed = 0
    /\ expanded = <<>>
    /\ dir_entry = NoDirEntry
    /\ report = report_new
    /\ yielded = <<>>
    /\ returned_none = FALSE
    /\ nones = 0
    /\ seen_excluded = [ft \in FileTypes |-> 0]
    /\ IdleApath
    /\ IdleCmp
    /\ IdleCheck
    /\ IdleCopy

Create(node) ==
    /\ pc = "setup"
    /\ Cardinality(DOMAIN tree) < MaxEntries
    /\ \E dir \in Dirs(tree), n \in WalkNames :
           /\ child_apath_str(dir, n) \notin DOMAIN tree
           /\ tree' = tree @@ (child_apath_str(dir, n) :> node)
    /\ UNCHANGED <<root_stat, excludes, pc, dir_deque, entry_deque,
                   parent_apath, children, dir_iter, listed, expanded,
                   dir_entry, report, yielded, returned_none, nones,
                   seen_excluded, apathVars, cmpVars, copyVars, checkVars>>

\* TreeFixture::create_file
create_file == Create(Node("File", FileLen, <<>>))

\* TreeFixture::create_dir
create_dir == Create(Node("Dir", 0, <<>>))

\* TreeFixture::create_symlink
create_symlink == Create(Node("Symlink", 0, LinkTarget))

\* LiveTree::open(tf.path(), &report).with_excludes(globs).iter_entries(&report):
\* Iter::new on the fixture's root, a directory.
Open ==
    /\ pc = "setup"
    /\ \E globs \in SUBSET WalkNames : IterNew(root_stat, globs)
    /\ UNCHANGED <<root_stat, tree, parent_apath, children, dir_iter, listed,
                   expanded, dir_entry,
                   report, yielded, returned_none, nones, seen_excluded, checked,
                   refused, apathVars, cmpVars, copyVars>>

StaticVisit ==
    /\ dir_deque # <<>>
    /\ NextVisit(TRUE, ChildNames(tree, Head(dir_deque)))
    /\ UNCHANGED <<apathVars, cmpVars, copyVars>>

StaticChild ==
    /\ \E n \in dir_iter :
           /\ VisitChild(StaticDirEntry(tree, parent_apath, n))
           /\ dir_iter' = dir_iter \ {n}
    /\ UNCHANGED <<apathVars, cmpVars, copyVars>>

StaticEnd ==
    /\ dir_iter = {}
    /\ VisitEnd
    /\ UNCHANGED <<apathVars, cmpVars, copyVars>>

Yield == NextYield /\ UNCHANGED <<apathVars, cmpVars, copyVars>>

Exhausted == NextExhausted /\ UNCHANGED <<apathVars, cmpVars, copyVars>>

Next ==
    \/ create_file
    \/ create_dir
    \/ create_symlink
    \/ Open
    \/ Yield
    \/ StaticVisit
    \/ StaticChild
    \/ StaticEnd
    \/ Exhausted

Spec == Init /\ [][Next]_vars

\* The walk of the fixture by a caller that keeps calling next: a call that
\* has started runs on, and a call that has returned is followed by another.
Pull == Yield \/ StaticVisit \/ StaticChild \/ StaticEnd \/ Exhausted

\* the fixtures walked to the end: the trees of at most MaxLiveEntries entries
\* that create_file, create_dir and create_symlink build in the root and in
\* its directories
LivePaths ==
    {child_apath_str(Root, n) : n \in WalkNames}
        \cup {child_apath_str(child_apath_str(Root, n), m) :
                n \in WalkNames, m \in WalkNames}

FixtureNodes ==
    {Node("File", FileLen, <<>>), Node("Dir", 0, <<>>),
     Node("Symlink", 0, LinkTarget)}

LiveTrees ==
    UNION {{tr \in [S -> FixtureNodes] :
               \A q \in S : \E dir \in Dirs(tr), n \in WalkNames :
                   q = child_apath_str(dir, n)} :
           S \in {S \in SUBSET LivePaths : Cardinality(S) <= MaxLiveEntries}}

InitLive ==
    /\ root_stat = Metadata("Dir", 0)
    /\ tree \in LiveTrees
    /\ excludes = {}
    /\ pc = "setup"
    /\ dir_deque = <<>>
    /\ entry_deque = <<>>
    /\ parent_apath = Root
    /\ children = <<>>
    /\ dir_iter = {}
    /\ listed = 0
    /\ expanded = <<>>
    /\ dir_entry = NoDirEntry
    /\ report = report_new
    /\ yielded = <<>>
    /\ returned_none = FALSE
    /\ nones = 0
    /\ seen_excluded = [ft \in FileTypes |-> 0]
    /\ IdleApath
    /\ IdleCmp
    /\ IdleCheck
    /\ IdleCopy

NextLive ==
    \/ Open
    \/ Yield
    \/ StaticVisit
    \/ StaticChild
    \/ StaticEnd
    \/ Exhausted

SpecLive == InitLive /\ [][NextLive]_vars /\ WF_vars(Pull)

-----------------------------------------------------------------------------
(* The walk of a tree that other programs change meanwhile and whose reads *)
(* may fail: every answer of the filesystem is any answer it can give.     *)

MdAnswers ==
    {[res |-> "NotFound", ft |-> "Other", len |-> 0],
     [res |-> "OtherErr", ft |-> "Other", len |-> 0]}
    \cup {Metadata(ft, IF ft = "File" THEN FileLen ELSE 0) : ft \in FileTypes}

LinkAnswers ==
    {[res |-> "ReadErr", target |-> <<>>],
     [res |-> "DecodeErr", target |-> <<>>],
     OkLink(LinkTarget)}

\* The answers for one directory entry; an answer the walker does not get to
\* ask for (the metadata after a failed file_type, the link of a non-symlink)
\* is left at NoMd, NoLink.
AnyDirEntries ==
    {DirEntry("Err", None, "Err", NoMd, NoLink),
     DirEntry("Ok", None, "Err", NoMd, NoLink)}
    \cup {DirEntry("Ok", Some(n), "Err", NoMd, NoLink) : n \in WalkNames}
    \cup {DirEntry("Ok", Some(n), ft, md, NoLink) :
            n \in WalkNames, ft \in FileTypes \ {"Symlink"}, md \in MdAnswers}
    \cup {DirEntry("Ok", Some(n), "Symlink", md, NoLink) :
            n \in WalkNames, md \in {m \in MdAnswers : m.res # "Ok"}}
    \cup {DirEntry("Ok", Some(n), "Symlink", md, link) :
            n \in WalkNames, md \in {m \in MdAnswers : m.res = "Ok"},
            link \in LinkAnswers}

\* Before Iter::new: the root path answers fs::symlink_metadata with an error
\* or with some metadata, and the LiveTree has some exclusions.
InitRace ==
    /\ root_stat \in MdAnswers
    /\ tree = <<>>
    /\ \E globs \in SUBSET WalkNames : excludes = globs
    /\ pc = "new"
    /\ entry_deque = <<>>
    /\ dir_deque = <<>>
    /\ parent_apath = Root
    /\ children = <<>>
    /\ dir_iter = {}
    /\ listed = 0
    /\ expanded = <<>>
    /\ dir_entry = NoDirEntry
    /\ report = report_new
    /\ yielded = <<>>
    /\ returned_none = FALSE
    /\ nones = 0
    /\ seen_excluded = [ft \in FileTypes |-> 0]
    /\ IdleApath
    /\ IdleCmp
    /\ IdleCheck
    /\ IdleCopy

\* LiveTree::iter_entries: Iter::new on the root path
RaceNew ==
    /\ pc = "new"
    /\ IF root_stat.res = "Ok"
       THEN /\ IterNew(root_stat, excludes)
            /\ UNCHANGED <<root_stat, tree, parent_apath, children, dir_iter,
                           listed, expanded, dir_entry, report, yielded,
                           returned_none, nones, seen_excluded, checked,
                           refused>>
       ELSE IterNewFailed
    /\ UNCHANGED <<apathVars, cmpVars, copyVars>>

RaceVisit ==
    /\ \E ok \in BOOLEAN : NextVisit(ok, {})
    /\ UNCHANGED <<apathVars, cmpVars, copyVars>>

RaceChild ==
    /\ listed < MaxListed
    /\ \E de \in AnyDirEntries : VisitChild(de)
    /\ UNCHANGED <<dir_iter, apathVars, cmpVars, copyVars>>

RaceEnd == VisitEnd /\ UNCHANGED <<apathVars, cmpVars, copyVars>>

NextRace ==
    \/ RaceNew
    \/ Yield
    \/ RaceVisit
    \/ RaceChild
    \/ RaceEnd
    \/ Exhausted

SpecRace == InitRace /\ [][NextRace]_vars

-----------------------------------------------------------------------------
(* copy_tree on any source and any destination *)

\* the paths of the sources: the root, and paths inside and outside the
\* subtree copy_tree names
CopyPaths ==
    { Root,
      child_apath_str(Root, <<LetterA>>),
      child_apath_str(Root, Target),
      child_apath_str(child_apath_str(Root, Target), <<LetterA>>) }

\* an entry of kind k at path p, as a tree holds it
EntryAt(p, k) ==
    [apath |-> p, kind |-> k,
     size |-> IF k = "File" THEN Some(FileLen) ELSE None,
     symlink_target |-> IF k = "Symlink" THEN Some(LinkTarget) ELSE None]

CopyEntries == {EntryAt(p, k) : p \in CopyPaths, k \in Kinds}

\* the ordered iterations of a ReadTree: entries in strictly ascending order
\* of their paths
Sources ==
    {s \in UNION {[1..k -> CopyEntries] : k \in 0..MaxSource} :
        \A i \in 1..(Len(s) - 1) : apath_lt(s[i].apath, s[i + 1].apath)}

InitCopy ==
    /\ copy_pc = "start"
    /\ options \in [print_filenames : BOOLEAN, measure_first : BOOLEAN]
    /\ \/ source = [opens |-> FALSE, entries |-> <<>>]
       \/ \E s \in Sources : source = [opens |-> TRUE, entries |-> s]
    /\ taken = 0
    /\ to_be_copied = None
    /\ stats = copy_stats_default
    /\ bytes_total = None
    /\ dest = <<>>
    /\ dest_ops = <<>>
    /\ result = None
    /\ IdleApath
    /\ IdleCmp
    /\ IdleCheck
    /\ IdleIter

Start == CopyStart /\ UNCHANGED <<apathVars, cmpVars, checkVars, iterVars>>

Entry ==
    /\ \E ok \in BOOLEAN : CopyEntry(ok)
    /\ UNCHANGED <<apathVars, cmpVars, checkVars, iterVars>>

Finish ==
    /\ \E answer \in FinishAnswers : CopyFinish(answer)
    /\ UNCHANGED <<apathVars, cmpVars, checkVars, iterVars>>

NextCopy == Start \/ Entry \/ Finish

SpecCopy == InitCopy /\ [][NextCopy]_vars

-----------------------------------------------------------------------------
(* The validity rule of an archive path, stated on the positions of the    *)
(* string: it starts with '/', and unless it is "/" alone every stretch    *)
(* between one '/' and the next (or the end) is non-empty, is neither "."  *)
(* nor "..", and holds no NUL.                                             *)

SegmentAfter(s, i) ==
    LET stops == {j \in (i + 1)..(Len(s) + 1) : j = Len(s) + 1 \/ s[j] = SLASH}
        j == CHOOSE k \in stops : \A m \in stops : k <= m
    IN  SubSeq(s, i + 1, j - 1)

WellFormed(s) ==
    /\ Len(s) >= 1
    /\ s[1] = SLASH
    /\ \/ Len(s) = 1
       \/ \A i \in 1..Len(s) :
              s[i] = SLASH =>
                  LET seg == SegmentAfter(s, i)
                  IN  /\ seg # <<>>
                      /\ seg # <<DOT>>
                      /\ seg # <<DOT, DOT>>
                      /\ \A k \in 1..Len(seg) : seg[k] # NUL

\* C6: is_valid(s) is true exactly when s is well formed (leading '/', and
\* either "/" alone or only non-empty segments that are neither "." nor ".."
\* and hold no NUL); it is false for every string of tests::invalid; it always
\* returns a boolean.
C6_IsValidIsTheRule ==
    is_some(valid) =>
        /\ unwrap(valid) \in BOOLEAN
        /\ unwrap(valid) = WellFormed(input)
        /\ input \in InvalidCases => unwrap(valid) = FALSE

\* a two-segment path was judged valid
C6_Witness ==
    /\ valid = Some(TRUE)
    /\ input = <<SLASH, LetterA, SLASH, LetterA>>

\* C7: From panics exactly when the string is not well formed, and otherwise
\* the Apath holds exactly that string, so every Apath built is well formed.
C7_FromAssertsValidity ==
    is_some(built) =>
        /\ unwrap(built).panic <=> ~WellFormed(input)
        /\ ~unwrap(built).panic =>
               /\ unwrap(built).apath = input
               /\ WellFormed(unwrap(built).apath)

\* From was called on a string with a ".." segment and panicked
C7_Witness ==
    /\ is_some(built)
    /\ unwrap(built).panic
    /\ input = <<SLASH, DOT, DOT>>

-----------------------------------------------------------------------------
(* The order of Apaths *)

Reverse(o) ==
    CASE o = "Less" -> "Greater"
      [] o = "Greater" -> "Less"
      [] OTHER -> o

\* y lies below the directory dir, at any depth
Below(y, dir) ==
    /\ Len(y) > Len(dir) + 1
    /\ SubSeq(y, 1, Len(dir) + 1) = dir \o <<SLASH>>

\* x = d/name and y = d/name2/... for some directory d (the root included)
DirectChildAndDeeper(x, y) ==
    \E d \in CmpPaths, name \in CmpNames, name2 \in CmpNames :
        /\ x = child_apath_str(d, name)
        /\ Below(y, child_apath_str(d, name2))

\* C3: cmp is a strict total order on valid paths: Equal exactly for the same
\* string, cmp(b, a) the reverse of cmp(a, b), and a < b, b < c imply a < c.
C3_TotalOrder ==
    ord # "unset" =>
        /\ ord \in {"Less", "Equal", "Greater"}
        /\ (ord = "Equal") <=> (a = b)
        /\ ord_back = Reverse(ord)
        /\ \A c \in CmpPaths :
               (ord = "Less" /\ cmp(b, c) = "Less") => cmp(a, c) = "Less"

\* a < b was found for paths of different depths, with some c above b
C3_Witness ==
    /\ ord = "Less"
    /\ a = <<SLASH, LetterB>>
    /\ b = <<SLASH, LetterA, SLASH, LetterB>>
    /\ \E c \in CmpPaths : cmp(b, c) = "Less"

\* C4: a direct child of d is less than everything below a subdirectory of d,
\* whatever the order of the two names.
C4_DirectChildFirst ==
    (ord # "unset" /\ DirectChildAndDeeper(a, b)) => ord = "Less"

\* d = /a, name = b, name2 = a: the child's name is the greater one
C4_Witness ==
    /\ ord # "unset"
    /\ a = <<SLASH, LetterA, SLASH, LetterB>>
    /\ b = <<SLASH, LetterA, SLASH, LetterA, SLASH, LetterA>>
    /\ DirectChildAndDeeper(a, b)

\* C5: the root is less than every other valid path, at every depth.
C5_RootFirst ==
    ord # "unset" =>
        /\ (a = Root /\ b # Root) => (ord = "Less" /\ ord_back = "Greater")
        /\ (b = Root /\ a # Root) => (ord = "Greater" /\ ord_back = "Less")

\* the root was compared with a path three levels down
C5_Witness ==
    /\ ord # "unset"
    /\ a = Root
    /\ b = <<SLASH, LetterB, SLASH, LetterA, SLASH, LetterA>>

-----------------------------------------------------------------------------
(* CheckOrder *)

\* C8: the first check succeeds; a later check(p) fails exactly when the
\* last-seen path is not strictly less than p (a repeated path fails); a
\* successful check records p as last seen; so the accepted paths are strictly
\* increasing.
C8_CheckOrder ==
    /\ checked = <<>> => (last_apath = None /\ refused = None)
    /\ checked # <<>> => last_apath = Some(checked[Len(checked)])
    /\ \A i \in 1..Len(checked), j \in 1..Len(checked) :
           i < j => cmp(checked[i], checked[j]) = "Less"
    /\ is_some(refused) =>
           cmp(checked[Len(checked)], unwrap(refused)) # "Less"

\* /b then /a/a were accepted, and /a/a a second time was refused
C8_Witness ==
    /\ checked = << <<SLASH, LetterB>>, <<SLASH, LetterA, SLASH, LetterA>> >>
    /\ refused = Some(<<SLASH, LetterA, SLASH, LetterA>>)

-----------------------------------------------------------------------------
(* The walker *)

Apaths(entries) == {entries[i].apath : i \in 1..Len(entries)}

\* path is excluded itself, or lies beneath an excluded path
ExcludedOrBeneath(globs, path) ==
    \E i \in 2..Len(path) :
        /\ i = Len(path) \/ path[i + 1] = SLASH
        /\ is_match(globs, SubSeq(path, 1, i))

\* the root, and the entries of the tree that are not excluded and have no
\* excluded directory above them
Selected(tr, globs) ==
    {Root} \cup {p \in DOMAIN tr : ~ExcludedOrBeneath(globs, p)}

StrictlyAscending(entries) ==
    \A i \in 1..Len(entries), j \in 1..Len(entries) :
        i < j => cmp(entries[i].apath, entries[j].apath) = "Less"

\* C1: on an unchanging tree whose reads all succeed, the walk up to None
\* yields the root first and then exactly the entries that are neither
\* excluded nor beneath an excluded directory, each once, in strictly
\* ascending Apath order.
C1_WalkInApathOrder ==
    /\ pc # "panicked"
    /\ returned_none =>
           /\ yielded # <<>>
           /\ yielded[1].apath = Root
           /\ Apaths(yielded) = Selected(tree, excludes)
           /\ Len(yielded) = Cardinality(Selected(tree, excludes))
           /\ StrictlyAscending(yielded)

\* the walk of the tree /a/a/a, /b/a ended: two sibling directories, the
\* first with a subdirectory of its own
C1_Witness ==
    /\ returned_none
    /\ excludes = {}
    /\ Len(yielded) = 6
    /\ yielded[5].apath = <<SLASH, LetterA, SLASH, LetterA, SLASH, LetterA>>
    /\ yielded[6].apath = <<SLASH, LetterB, SLASH, LetterA>>

\* C2: once Iter::new has succeeded no call of next fails fatally, whatever
\* the filesystem answers, also when a listing repeats a name: the assertion
\* of CheckOrder::check never fires.
C2_NeverPanics == pc # "panicked"

\* C9: an excluded child is never queued or yielded, an excluded directory is
\* never pending, no directory at or beneath an excluded path is ever listed,
\* and the exclusion predicate of the walker never changes.
C9_ExcludedNeverVisited ==
    /\ [](/\ \A p \in Apaths(yielded) \cup Apaths(entry_deque)
                      \cup {children[i].entry.apath : i \in 1..Len(children)}
                      \cup {dir_deque[i] : i \in 1..Len(dir_deque)} :
                 ~ExcludedOrBeneath(excludes, p)
          /\ pc = "visiting" => ~ExcludedOrBeneath(excludes, parent_apath))
    /\ [][pc # "setup" => excludes' = excludes]_vars

\* an excluded directory was listed, and the walk went on to its end and
\* yielded another entry
C9_Witness ==
    /\ returned_none
    /\ seen_excluded["Dir"] = 1
    /\ Len(yielded) = 2

SkippedExcluded ==
    get_count(report, "skipped.excluded.files")
    + get_count(report, "skipped.excluded.directories")
    + get_count(report, "skipped.excluded.symlinks")

CountersMatchTypes ==
    /\ get_count(report, "skipped.excluded.files") = seen_excluded["File"]
    /\ get_count(report, "skipped.excluded.directories") = seen_excluded["Dir"]
    /\ get_count(report, "skipped.excluded.symlinks") = seen_excluded["Symlink"]

\* C10 as stated: at exhaustion each skipped.excluded counter equals the number
\* of listed children of that type that matched, and every excluded child is
\* counted once under exactly one kind.
C10_EveryExcludedChildCounted ==
    returned_none =>
        /\ CountersMatchTypes
        /\ SkippedExcluded =
               seen_excluded["File"] + seen_excluded["Dir"]
               + seen_excluded["Symlink"] + seen_excluded["Other"]

\* C10 as amended: at exhaustion each skipped.excluded counter equals the
\* number of listed children of that type that matched; an excluded file,
\* directory or symlink is counted once under its one kind and an excluded
\* child of any other type under none; nothing at or beneath an excluded
\* directory is listed, so nothing there is counted.
C10_ExcludedCountedByType ==
    /\ returned_none =>
           /\ CountersMatchTypes
           /\ SkippedExcluded =
                  seen_excluded["File"] + seen_excluded["Dir"]
                  + seen_excluded["Symlink"]
    /\ pc = "visiting" => ~ExcludedOrBeneath(excludes, parent_apath)

\* a walk ended in which an excluded symlink and an excluded child of
\* another type (a socket, a fifo) were listed
C10_Witness ==
    /\ returned_none
    /\ seen_excluded["Symlink"] = 1
    /\ seen_excluded["Other"] = 1
    /\ get_count(report, "skipped.excluded.symlinks") = 1

-----------------------------------------------------------------------------
(* The counters of the walk *)

\* the yielded entries of kind Dir other than the root
YieldedDirs ==
    {i \in 1..Len(yielded) :
        yielded[i].kind = "Dir" /\ yielded[i].apath # Root}

\* C11: whenever a call of next has returned, source.selected is the number
\* of entries yielded so far and source.visited.directories the number of
\* directories expanded so far; once next has returned None,
\* source.visited.directories is 1 plus the number of yielded non-root
\* directories, and the directories expanded are the root and the yielded
\* directories, each once, whether or not their listing could be opened.
C11_CountersFollowTheWalk ==
    /\ pc = "idle" =>
           /\ get_count(report, "source.selected") = Len(yielded)
           /\ get_count(report, "source.visited.directories") = Len(expanded)
    /\ returned_none =>
           /\ get_count(report, "source.visited.directories")
                  = 1 + Cardinality(YieldedDirs)
           /\ {expanded[i] : i \in 1..Len(expanded)}
                  = {Root} \cup {yielded[i].apath : i \in YieldedDirs}
           /\ \A i \in 1..Len(expanded), j \in 1..Len(expanded) :
                  expanded[i] = expanded[j] => i = j

\* the walk ended after the root listed one child, a directory, and the
\* listing of that directory could not be opened
C11_Witness ==
    /\ returned_none
    /\ listed = 1
    /\ Len(expanded) = 2
    /\ report.problems = 1
    /\ Len(yielded) = 2

-----------------------------------------------------------------------------
(* The construction of the walker *)

\* the Iter as Iter::new must leave it: the root entry alone in the ready
\* queue, the root alone pending, nothing yielded, listed or counted
Primed ==
    /\ Len(entry_deque) = 1
    /\ entry_deque[1].apath = Root
    /\ entry_deque[1].kind =
           (IF root_stat.ft \in {"File", "Dir", "Symlink"}
            THEN root_stat.ft ELSE "Unknown")
    /\ dir_deque = <<Root>>
    /\ yielded = <<>>
    /\ expanded = <<>>
    /\ dir_entry = NoDirEntry
    /\ listed = 0
    /\ \A c \in CounterNames : get_count(report, c) = 0
    /\ report.problems = 0
    /\ report.errors_shown = 0

\* C12: Iter::new fails exactly when the root path cannot be stat-ed, and
\* then the error has been shown on the report once and nothing was queued;
\* when it succeeds the ready queue holds the root entry alone, of the kind
\* of the root's metadata, the pending-directories queue holds "/" alone and
\* nothing has been yielded or counted.
C12_NewPrimesOrFails ==
    /\ [](pc # "new" => (pc = "failed" <=> root_stat.res # "Ok"))
    /\ [](pc = "failed" =>
              /\ report.errors_shown = 1
              /\ entry_deque = <<>>
              /\ dir_deque = <<>>
              /\ yielded = <<>>)
    /\ [][pc = "new" /\ pc' # "failed" => pc' = "idle" /\ Primed']_vars

\* both outcomes: this state is a walker just built on a root that is a
\* symlink; a failed construction is the other
C12_Witness ==
    /\ pc = "idle"
    /\ Primed
    /\ root_stat.ft = "Symlink"

-----------------------------------------------------------------------------
(* copy_tree: what reaches the destination *)

IsEntryOp(o) == o.op # "finish"
IsCopyable(e) == e.kind # "Unknown"

\* the destination operation of a kind
OpOfKind(kind) ==
    IF kind = "Dir" THEN "copy_dir"
    ELSE IF kind = "File" THEN "copy_file"
    ELSE "copy_symlink"

\* the operations called for entries so far: which operation, on which path
EntryOpsCalled ==
    LET called == SelectSeq(dest_ops, IsEntryOp)
    IN  [i \in 1..Len(called) |-> <<called[i].op, called[i].apath>>]

\* the entries given, without those of unknown kind, each as the operation of
\* its kind on its path
OpsFor(entries) ==
    LET copyable == SelectSeq(entries, IsCopyable)
    IN  [i \in 1..Len(copyable) |->
            <<OpOfKind(copyable[i].kind), copyable[i].apath>>]

\* C13: at every moment the destination operations called for entries are,
\* in order, those of the entries the loop has taken so far, one per entry by
\* its kind and none for an entry of unknown kind; when copy_tree has returned
\* from a source that opened, the loop has taken every entry of the source, so
\* the operations are the source's sequence without its unknown entries.
C13_OneOperationPerEntryInOrder ==
    /\ EntryOpsCalled = OpsFor(SubSeq(source.entries, 1, taken))
    /\ copy_pc = "done" /\ source.opens => taken = Len(source.entries)

\* a copy has returned whose source held a directory, an entry of unknown
\* kind and a symlink, in this order
C13_Witness ==
    /\ copy_pc = "done"
    /\ Len(source.entries) = 3
    /\ source.entries[1].kind = "Dir"
    /\ source.entries[2].kind = "Unknown"
    /\ source.entries[3].kind = "Symlink"
    /\ Len(dest_ops) = 3

-----------------------------------------------------------------------------
(* copy_tree: failures of the destination *)

IsFailedEntryOp(o) == o.op # "finish" /\ ~o.res.ok
IsFinish(o) == o.op = "finish"

\* how many destination operations for entries have failed
FailedEntryOps == Len(SelectSeq(dest_ops, IsFailedEntryOp))

\* finish has been called once, as the last operation
FinishCalledLast ==
    /\ Len(SelectSeq(dest_ops, IsFinish)) = 1
    /\ dest_ops[Len(dest_ops)].op = "finish"

\* C14 as stated: when copy_tree has returned from a source that opened, every
\* entry was dispatched, finish was called, and the result is a success whose
\* error count is the number of failed destination operations plus the errors
\* finish reports.
C14_FailuresNeverFailTheCopy ==
    copy_pc = "done" /\ source.opens /\ FailedEntryOps > 0 =>
        /\ taken = Len(source.entries)
        /\ FinishCalledLast
        /\ unwrap(result).ok
        /\ unwrap(result).stats.errors =
               FailedEntryOps + dest_ops[Len(dest_ops)].res.stats.errors

\* C14 as amended: in the loop the error counter is the number of failed
\* destination operations; when copy_tree has returned from a source that
\* opened, every entry was dispatched and finish was called; if finish
\* succeeded the result is a success whose error count is the number of failed
\* destination operations plus the errors finish reports, and if finish
\* failed the result is that failure.
C14_EntryFailuresNeverFailTheCopy ==
    /\ copy_pc = "copying" => stats.errors = FailedEntryOps
    /\ copy_pc = "done" /\ source.opens =>
           /\ taken = Len(source.entries)
           /\ FinishCalledLast
           /\ LET finish == dest_ops[Len(dest_ops)].res
              IN  /\ unwrap(result).ok = finish.ok
                  /\ finish.ok =>
                         unwrap(result).stats.errors =
                             FailedEntryOps + finish.stats.errors

\* a copy has returned a success after its first operation failed, its
\* second succeeded and finish reported an error of its own
C14_Witness ==
    /\ copy_pc = "done"
    /\ Len(dest_ops) = 3
    /\ ~dest_ops[1].res.ok
    /\ dest_ops[2].res.ok
    /\ dest_ops[3].res.ok
    /\ dest_ops[3].res.stats.errors = 1
    /\ unwrap(result).ok
    /\ unwrap(result).stats.errors = 2

-----------------------------------------------------------------------------
(* copy_tree: finish *)

\* C15: while the loop runs finish has not been called; when copy_tree has
\* returned from a source that opened, every entry was taken and finish was
\* called once, as the last operation on the destination; and the step that
\* calls finish returns, when finish returns statistics, the running totals
\* with those statistics added.
C15_FinishOnceAtTheEnd ==
    /\ [](copy_pc = "copying" => SelectSeq(dest_ops, IsFinish) = <<>>)
    /\ [](copy_pc = "done" /\ source.opens =>
              /\ taken = Len(source.entries)
              /\ FinishCalledLast)
    /\ [][copy_pc = "copying" /\ copy_pc' = "done" =>
              LET finish == dest_ops'[Len(dest_ops')].res
              IN  /\ dest_ops' = Append(dest_ops, dest_ops'[Len(dest_ops')])
                  /\ finish.ok =>
                         result' = Some(Ok(stats_add(stats, finish.stats)))]_vars

\* a copy has returned after two entry operations and a finish that
\* reported bytes and an error of its own
C15_Witness ==
    /\ copy_pc = "done"
    /\ Len(dest_ops) = 3
    /\ dest_ops[3].res.ok
    /\ dest_ops[3].res.stats.bytes = 1
    /\ unwrap(result).ok
    /\ unwrap(result).stats.files = 2
    /\ unwrap(result).stats.bytes = 2 * FileLen + 1

-----------------------------------------------------------------------------
(* copy_tree: the destination read back *)

\* an entry sequence by path, kind and size
ByPathKindSize(entries) ==
    [i \in 1..Len(entries) |->
        <<entries[i].apath, entries[i].kind, entries[i].size>>]

\* copy_tree has returned a success and no operation on the destination failed
CopiedWithoutFailure ==
    /\ copy_pc = "done"
    /\ unwrap(result).ok
    /\ FailedEntryOps = 0

-----------------------------------------------------------------------------
(* copy_tree: the sizing pass *)

IsKind(kind, entries) ==
    Cardinality({i \in 1..Len(entries) : entries[i].kind = kind})

RECURSIVE BytesStored(_)
BytesStored(ops) ==
    IF ops = <<>> THEN 0
    ELSE (IF Head(ops).res.ok THEN Head(ops).res.stats.bytes ELSE 0)
         + BytesStored(Tail(ops))

\* What copy_tree returns, told from the source and from what the
\* destination answered, with no regard to the options.
ResultWhateverTheOptions ==
    IF ~source.opens THEN Err
    ELSE IF ~dest_ops[Len(dest_ops)].res.ok THEN Err
    ELSE Ok([directories |-> IsKind("Dir", source.entries),
             files |-> IsKind("File", source.entries),
             symlinks |-> IsKind("Symlink", source.entries),
             unknown_kind |-> IsKind("Unknown", source.entries),
             errors |-> FailedEntryOps
                        + dest_ops[Len(dest_ops)].res.stats.errors,
             bytes |-> BytesStored(dest_ops)])

\* C17: the operations copy_tree has called on the destination when it
\* returns, and its result, are told by the source and the destination's
\* answers alone: with measure_first set or cleared, a source that does not
\* open gives a failure and no operation, and a source that opens gives the
\* operations of its entries in order, then finish, and the result made of
\* the entry counts and the destination's answers.
C17_MeasureFirstChangesNothing ==
    copy_pc = "done" =>
        /\ unwrap(result) = ResultWhateverTheOptions
        /\ IF source.opens
           THEN /\ EntryOpsCalled = OpsFor(source.entries)
                /\ FinishCalledLast
           ELSE dest_ops = <<>>

\* a copy with measure_first set has measured its source, of two files, and
\* has returned after copying both
C17_Witness ==
    /\ copy_pc = "done"
    /\ options.measure_first
    /\ bytes_total = Some(2 * FileLen)
    /\ unwrap(result).ok
    /\ unwrap(result).stats.files = 2
    /\ unwrap(result).stats.errors = 0

-----------------------------------------------------------------------------
(* copy_tree: entries of unknown kind *)

\* C18: the round of the loop that takes an entry of unknown kind adds one to
\* the unknown-kind counter and changes nothing else: no operation is called
\* on the destination, the destination and every other counter stay as they
\* are, nothing is returned, and the loop goes on.
C18_UnknownOnlyCounted ==
    [][/\ copy_pc = "copying"
       /\ taken' = taken + 1
       /\ source.entries[taken + 1].kind = "Unknown"
       => /\ stats' = [stats EXCEPT !.unknown_kind = @ + 1]
          /\ dest_ops' = dest_ops
          /\ dest' = dest
          /\ result' = result
          /\ copy_pc' = "copying"]_vars

\* the loop has passed an entry of unknown kind and then copied a file
C18_Witness ==
    /\ taken = 2
    /\ source.entries[1].kind = "Unknown"
    /\ source.entries[2].kind = "File"
    /\ stats.unknown_kind = 1
    /\ stats.files = 1
    /\ Len(dest_ops) = 1
    /\ dest_ops[1].res.ok

-----------------------------------------------------------------------------
(* copy_tree: the matching of the subtree name *)

\* the counter of a kind
CounterOfKind(st, kind) ==
    IF kind = "Dir" THEN st.directories
    ELSE IF kind = "File" THEN st.files
    ELSE IF kind = "Symlink" THEN st.symlinks
    ELSE st.unknown_kind

\* C19: reading the second piece of an entry's path never fails, for the root
\* and for paths inside and outside the subtree named; and in every round of
\* the loop, whether or not the entry's first component is that name, the
\* counter of the entry's kind alone goes up by one, the operation of that
\* kind (none for an unknown kind) is called on the entry's path, and an error
\* is counted exactly when that operation fails.
C19_SubtreeMatchingIsInert ==
    /\ [](copy_pc # "panicked")
    /\ [][copy_pc = "copying" /\ taken' = taken + 1 =>
              LET entry == source.entries[taken + 1]
                  added == SubSeq(dest_ops', Len(dest_ops) + 1, Len(dest_ops'))
              IN  /\ to_be_copied' \in {Some(TRUE), Some(FALSE)}
                  /\ \A k \in Kinds :
                         CounterOfKind(stats', k) =
                             CounterOfKind(stats, k)
                             + (IF k = entry.kind THEN 1 ELSE 0)
                  /\ [i \in 1..Len(added) |-> <<added[i].op, added[i].apath>>]
                         = OpsFor(<<entry>>)
                  /\ stats'.errors = stats.errors
                         + Len(SelectSeq(added, IsFailedEntryOp))]_vars

\* the loop has taken the root and then the directory of the name matched,
\* and has called copy_dir for both
C19_Witness ==
    /\ taken = 2
    /\ source.entries[1].apath = Root
    /\ source.entries[2].apath = child_apath_str(Root, Target)
    /\ to_be_copied = Some(TRUE)
    /\ Len(dest_ops) = 2
    /\ dest_ops[2].op = "copy_dir"

-----------------------------------------------------------------------------
(* The pending-directories queue *)

\* y lies beneath the directory dir, at any depth; everything but the root
\* lies beneath the root
Beneath(y, dir) == IF dir = Root THEN y # Root ELSE Below(y, dir)

\* the last component of a path
LastName(p) == LET parts == split(p, SLASH) IN parts[Len(parts)]

\* the paths of the children of kind Dir collected by the running expansion
DirChildren ==
    {children[i].entry.apath :
        i \in {j \in 1..Len(children) : IsDirChild(children[j])}}

\* C20: an expansion pops the front of the pending-directories queue and
\* leaves the rest alone until its end, where the queue becomes the Dir
\* children just found, in ascending order of their names, followed by the
\* queue as it was; consequently the directories are expanded subtree by
\* subtree: between a directory and any directory beneath it, only
\* directories beneath it are expanded.
C20_NewDirectoriesFirstAscending ==
    /\ [][(pc \in {"idle", "loop"} /\ pc' = "visiting")
              => (dir_deque' = Tail(dir_deque))]_vars
    /\ [][(pc = "visiting" /\ pc' = "visiting")
              => (dir_deque' = dir_deque)]_vars
    /\ [][pc = "visiting" /\ pc' = "loop" =>
              LET k == Len(dir_deque') - Len(dir_deque)
                  new == SubSeq(dir_deque', 1, k)
              IN  /\ k = Cardinality(DirChildren)
                  /\ {new[i] : i \in 1..k} = DirChildren
                  /\ \A i \in 1..k, j \in 1..k :
                         i < j =>
                             str_cmp(LastName(new[i]), LastName(new[j]))
                                 = "Less"
                  /\ SubSeq(dir_deque', k + 1, Len(dir_deque')) = dir_deque
          ]_vars
    /\ [](\A i \in 1..Len(expanded), j \in 1..Len(expanded),
             k \in 1..Len(expanded) :
               i < j /\ j < k /\ Beneath(expanded[k], expanded[i])
                   => Beneath(expanded[j], expanded[i]))

\* the walk of a tree with the directories /a, /a/a and /b has ended: /a/a
\* was expanded before /b
C20_Witness ==
    /\ returned_none
    /\ expanded = << Root,
                     <<SLASH, LetterA>>,
                     <<SLASH, LetterA, SLASH, LetterA>>,
                     <<SLASH, LetterB>> >>

-----------------------------------------------------------------------------
(* Failures during an expansion *)

\* C21: the step in which a directory is popped and its listing cannot be
\* opened leaves the ready queue as it was (empty), takes only that directory
\* off the pending queue, the others staying in place and in order, records
\* one problem and, apart from counting the directory as visited, changes no
\* counter; nothing yielded changes, and the walk goes on to the next pending
\* directory.
C21_FailedListingOnlyReported ==
    [][/\ pc \in {"idle", "loop"}
       /\ expanded' # expanded
       /\ pc' # "visiting"
       => /\ entry_deque = <<>>
          /\ entry_deque' = <<>>
          /\ dir_deque' = Tail(dir_deque)
          /\ report'.problems = report.problems + 1
          /\ report'.counts =
                 [report.counts EXCEPT !["source.visited.directories"] = @ + 1]
          /\ yielded' = yielded
          /\ pc' = "loop"]_vars

\* the listing of /a has just failed: one problem is recorded, /b is still
\* pending and the call of next goes on
C21_Witness ==
    /\ pc = "loop"
    /\ report.problems = 1
    /\ listed = 2
    /\ Len(yielded) = 3
    /\ expanded = <<Root, <<SLASH, LetterA>> >>
    /\ dir_deque = << <<SLASH, LetterB>> >>

\* the child of the running expansion that the listing answered last
ChildPath(de) == child_apath_str(parent_apath, unwrap(de.name))

\* the listing entry could be read, named and typed
Typed(de) == de.entry = "Ok" /\ is_some(de.name) /\ de.ft # "Err"

\* one of the steps taken for the child failed: reading the listing entry,
\* decoding its name, getting its type, and for a child not excluded stat-ing
\* it and, for a symlink, reading and decoding its target
StepFails(de) ==
    \/ ~Typed(de)
    \/ /\ ~is_match(excludes, ChildPath(de))
       /\ \/ de.md.res # "Ok"
          \/ de.ft = "Symlink" /\ de.link.res # "Ok"

\* how many times x occurs in the sequence s
Occurrences(s, x) == Cardinality({i \in 1..Len(s) : s[i] = x})

\* C22: in the round of the for loop whose child fails at some step, nothing
\* is added for that child and one problem is recorded, the children collected
\* before staying collected; a child that neither fails nor is excluded is
\* collected under its name and path; and at the end of the expansion the
\* collected children, all of them and nothing else, are appended to the
\* ready queue with their names in ascending order (equal names side by side).
C22_FailedChildAloneOmitted ==
    /\ [][pc = "visiting" /\ listed' = listed + 1 =>
              /\ dir_deque' = dir_deque
              /\ entry_deque' = entry_deque
              /\ StepFails(dir_entry') =>
                     /\ children' = children
                     /\ report'.problems = report.problems + 1
                     /\ pc' = "visiting"
              /\ ~StepFails(dir_entry')
                 /\ ~is_match(excludes, ChildPath(dir_entry')) =>
                     /\ Len(children') = Len(children) + 1
                     /\ SubSeq(children', 1, Len(children)) = children
                     /\ children'[Len(children')].name
                            = unwrap(dir_entry'.name)
                     /\ children'[Len(children')].entry.apath
                            = ChildPath(dir_entry')
                     /\ report' = report]_vars
    /\ [][pc = "visiting" /\ pc' = "loop" =>
              LET n == Len(entry_deque)
                  new == SubSeq(entry_deque', n + 1, Len(entry_deque'))
              IN  /\ SubSeq(entry_deque', 1, n) = entry_deque
                  /\ Len(new) = Len(children)
                  /\ \A i \in 1..Len(children) :
                         Occurrences(new, children[i].entry)
                             = Occurrences(EntryOfChild(children),
                                           children[i].entry)
                  /\ \A i \in 1..Len(new), j \in 1..Len(new) :
                         i < j =>
                             str_cmp(LastName(new[i].apath),
                                     LastName(new[j].apath)) # "Greater"
          ]_vars

\* the listing of the root has ended after one of its two children failed at
\* some step: one problem is recorded and the other child is queued
C22_Witness ==
    /\ pc = "loop"
    /\ expanded = <<Root>>
    /\ listed = 2
    /\ report.problems = 1
    /\ Len(entry_deque) = 1
    /\ SkippedExcluded = 0
    /\ seen_excluded["Other"] = 0

\* the entries queued or yielded so far
Emitted == {yielded[i] : i \in 1..Len(yielded)}
               \cup {entry_deque[i] : i \in 1..Len(entry_deque)}

\* the paths of the sequence s
PathsOf(s) == {s[i] : i \in 1..Len(s)}

\* C23: a child is collected with the kind its own metadata gives, so a child
\* whose metadata says symlink is collected with kind Symlink; at the end of an
\* expansion the directories newly pending are exactly the collected children
\* of kind Directory; hence every directory expanded, and every directory
\* pending in a walker that has not panicked, the root apart, was queued as an
\* entry of kind Directory, and no entry yielded with kind Symlink is ever
\* expanded.
C23_OnlyDirectoriesDescendedInto ==
    /\ [][pc = "visiting" /\ listed' = listed + 1 /\ children' # children =>
              LET c == children'[Len(children')]
                  ft == dir_entry'.md.ft
              IN  /\ dir_entry'.md.res = "Ok"
                  /\ c.entry.kind = "Dir" <=> ft = "Dir"
                  /\ c.entry.kind = "Symlink" <=> ft = "Symlink"]_vars
    /\ [][pc = "visiting" /\ pc' = "loop" =>
              LET k == Len(dir_deque') - Len(dir_deque)
                  dirs == SelectSeq(children,
                                    LAMBDA c : c.entry.kind = "Dir")
              IN  /\ k = Len(dirs)
                  /\ SubSeq(dir_deque', k + 1, Len(dir_deque')) = dir_deque
                  /\ PathsOf(SubSeq(dir_deque', 1, k))
                         = {dirs[i].entry.apath : i \in 1..k}]_vars
    /\ [](\A p \in PathsOf(expanded) \ {Root} :
              \E e \in Emitted : e.apath = p /\ e.kind = "Dir")
    /\ [](pc # "panicked" =>
              \A p \in PathsOf(dir_deque) \ {Root} :
                  \E e \in Emitted : e.apath = p /\ e.kind = "Dir")
    /\ [](\A i \in 1..Len(yielded) :
              yielded[i].kind = "Symlink" /\ yielded[i].apath # Root =>
                  yielded[i].apath \notin PathsOf(expanded))

\* a symlink and a directory listed in the root: both are yielded, the
\* directory alone is expanded, and the walk is over
C23_Witness ==
    /\ returned_none
    /\ Len(yielded) = 3
    /\ yielded[2].kind = "Symlink"
    /\ is_some(yielded[2].symlink_target)
    /\ yielded[3].kind = "Dir"
    /\ expanded = <<Root, yielded[3].apath>>

\* the source entries the loop has taken so far
Taken == SubSeq(source.entries, 1, taken)

\* the four counters the engine increments, added up
KindCounters(st) ==
    st.directories + st.files + st.symlinks + st.unknown_kind

\* C24: while the loop runs, each kind counter equals the number of source
\* entries of that kind taken so far, whatever their operations returned, so
\* the four add up to the entries taken; the copy that returns Ok returns
\* counters that add up to the entries of the source; a round whose operation
\* fails changes the kind counter and the error counter by one and nothing
\* else of the statistics; and the bytes counted are those the successful
\* operations reported.
C24_CountersCountDispatches ==
    /\ [](copy_pc = "copying" =>
              /\ \A k \in Kinds : CounterOfKind(stats, k) = IsKind(k, Taken)
              /\ KindCounters(stats) = taken
              /\ stats.bytes = BytesStored(dest_ops))
    /\ [](copy_pc = "done" /\ is_some(result) /\ unwrap(result).ok =>
              KindCounters(unwrap(result).stats) = Len(source.entries))
    /\ [][copy_pc = "copying" /\ dest_ops' # dest_ops
              /\ ~dest_ops'[Len(dest_ops')].res.ok
              /\ dest_ops'[Len(dest_ops')].op # "finish" =>
              LET kind == source.entries[taken'].kind
              IN  /\ stats'.errors = stats.errors + 1
                  /\ stats'.bytes = stats.bytes
                  /\ \A k \in Kinds :
                         CounterOfKind(stats', k)
                             = CounterOfKind(stats, k)
                                   + (IF k = kind THEN 1 ELSE 0)
                  /\ dest' = dest]_vars

\* three entries copied, one of each copyable kind, the copy of the file
\* having failed: all three are counted, one error, no byte
C24_Witness ==
    /\ copy_pc = "copying"
    /\ taken = 3
    /\ stats.directories = 1
    /\ stats.files = 1
    /\ stats.symlinks = 1
    /\ stats.errors = 1
    /\ stats.bytes = 0
    /\ \E i \in 1..Len(dest_ops) :
           dest_ops[i].op = "copy_file" /\ ~dest_ops[i].res.ok

\* C25: once next has returned None both queues are empty and stay so: every
\* later step of the walker is another None, which lists no directory, yields
\* no entry and changes no counter; and no path is yielded twice.
C25_NotRestartable ==
    /\ [](returned_none =>
              /\ entry_deque = <<>>
              /\ dir_deque = <<>>
              /\ pc = "idle")
    /\ [][returned_none =>
              /\ returned_none'
              /\ nones' = nones + 1
              /\ yielded' = yielded
              /\ listed' = listed
              /\ expanded' = expanded
              /\ report' = report
              /\ seen_excluded' = seen_excluded]_vars
    /\ [](\A i \in 1..Len(yielded), j \in 1..Len(yielded) :
              i # j => yielded[i].apath # yielded[j].apath)

\* next has returned None twice after a walk that yielded the root and two
\* entries below it and recorded a problem
C25_Witness ==
    /\ returned_none
    /\ nones = 2
    /\ Len(yielded) = 3
    /\ Len(expanded) = 2
    /\ report.problems = 1

\* the walker exists and one of its calls of next is running or may be made
Walking == pc \in {"idle", "loop", "visiting"}

\* C26: on a finite tree, a call of next that is running returns; a caller
\* that keeps calling next receives None in the end; and by then and at any
\* time the directories expanded are directories of the tree, each expanded at
\* most once.
C26_WalkTerminates ==
    /\ (pc \in {"loop", "visiting"}) ~> (pc = "idle")
    /\ Walking ~> returned_none
    /\ [](/\ PathsOf(expanded) \subseteq Dirs(tree)
          /\ Len(expanded) = Cardinality(PathsOf(expanded))
          /\ Len(expanded) <= Cardinality(Dirs(tree)))

\* None received after the walk of a tree of three directories, all expanded
C26_Witness ==
    /\ returned_none
    /\ Cardinality(Dirs(tree)) = 3
    /\ Len(expanded) = 3
    /\ Len(yielded) = 4

\* C27: every yielded entry, the root included, has a size exactly when its
\* kind is File, has a symlink target only when its kind is Symlink, and has
\* one whenever its kind is Symlink.
C27_SizeAndTargetFollowKind ==
    \A i \in 1..Len(yielded) :
        LET e == yielded[i]
        IN  /\ is_some(e.size) <=> e.kind = "File"
            /\ is_some(e.symlink_target) <=> e.kind = "Symlink"

\* the directory that holds p: p without its last component
ParentPath(p) ==
    LET k == CHOOSE i \in 1..Len(p) :
                 p[i] = SLASH /\ \A j \in (i + 1)..Len(p) : p[j] # SLASH
    IN  IF k = 1 THEN Root ELSE SubSeq(p, 1, k - 1)

\* the entry of the directory holding the i-th yielded entry was yielded
\* before it, with one of the kinds given
ParentYieldedBefore(i, kinds) ==
    \E j \in 1..(i - 1) :
        /\ yielded[j].apath = ParentPath(yielded[i].apath)
        /\ yielded[j].kind \in kinds

\* C28 as stated: every non-root entry yielded comes after the entry of its
\* parent directory, the root for the top-level entries, and that entry was
\* yielded with kind Directory.
C28_ParentYieldedAsDirectoryFirst ==
    \A i \in 1..Len(yielded) :
        yielded[i].apath # Root => ParentYieldedBefore(i, {"Dir"})

\* C28: every non-root entry yielded comes after the entry of its parent, the
\* root for the top-level entries; a parent below the root was yielded with
\* kind Directory, and the root, yielded first, with the kind its own metadata
\* gives, which need not be Directory.
C28_ParentYieldedFirst ==
    /\ yielded # <<>> =>
           yielded[1] = from_fs_metadata(Root, root_stat, None)
    /\ \A i \in 1..Len(yielded) :
           yielded[i].apath # Root =>
               ParentYieldedBefore(i, IF ParentPath(yielded[i].apath) = Root
                                      THEN Kinds ELSE {"Dir"})

\* a root that is a symlink, yielded as one and listed all the same: the
\* directory /a and its child /a/a are yielded after it
C28_Witness ==
    /\ Len(yielded) = 3
    /\ yielded[1].kind = "Symlink"
    /\ yielded[2].kind = "Dir"
    /\ ParentPath(yielded[3].apath) = yielded[2].apath
    /\ ParentPath(yielded[2].apath) = Root

\* the entries of the sequence s are children of one directory, their names
\* in ascending order (a name the listing repeated standing next to itself)
SiblingsAscending(s) ==
    /\ \A i \in 1..Len(s), j \in 1..Len(s) :
           /\ s[i].apath # Root
           /\ ParentPath(s[i].apath) = ParentPath(s[j].apath)
    /\ \A i \in 1..Len(s), j \in 1..Len(s) :
           i < j =>
               str_cmp(LastName(s[i].apath), LastName(s[j].apath)) # "Greater"

\* C29: a directory is expanded only when the ready queue is empty, and the
\* queue stays empty until the expansion ends; so the ready queue holds at any
\* time either the root entry alone or children of one directory, the one
\* expanded last, with their names in ascending order.
C29_OneListingHeld ==
    /\ [][expanded' # expanded => entry_deque = <<>>]_vars
    /\ [](pc = "visiting" => entry_deque = <<>>)
    /\ [](\/ entry_deque = <<>>
          \/ /\ Len(entry_deque) = 1
             /\ entry_deque[1].apath = Root
             /\ expanded = <<>>
          \/ /\ SiblingsAscending(entry_deque)
             /\ expanded # <<>>
             /\ ParentPath(entry_deque[1].apath)
                    = expanded[Len(expanded)])

\* the second directory is about to be expanded (the root and /a are done),
\* and its sibling directory is still pending: the ready queue is empty
C29_Witness ==
    /\ pc = "visiting"
    /\ Len(expanded) = 2
    /\ Len(yielded) = 3
    /\ dir_deque # <<>>
    /\ entry_deque = <<>>

====
